---- MODULE Spec2Model ----
(***************************************************************************)
(* Model of the unsafe-unwrap crate (src/lib.rs).                          *)
(*                                                                         *)
(* The crate adds one method, unsafe_unwrap(self) -> T, to Option<T> and   *)
(* Result<T, E>.  Each caller thread owns one container x[t] and moves it  *)
(* into one call.  A call either returns the payload or enters the helper  *)
(* unreachable(), which panics when cfg!(debug_assertions) holds and is    *)
(* undefined behaviour otherwise.                                          *)
(***************************************************************************)
EXTENDS Integers, FiniteSets, Sequences, TLC

\* ---------------------------------------------------------------- bounds
NumThreads == 2
MaxVal == 1
MaxErr == 1

Threads == 1..NumThreads
\* payloads of type T
Values == 0..MaxVal
\* the error type parameter E of Result<T, E>: () as in Result<_, ()>
\* (lib.rs:89) or an integer type as in Err(0) (lib.rs:98)
ErrTypes == {"Unit", "Int"}

\* A slot of a container or of a call's result holds <<v>>, or <<>> when it
\* holds no data; the one value of the unit type () carries no data.
NoValue == <<>>
ErrValues(E) == IF E = "Unit" THEN {<<>>} ELSE {<<e>> : e \in 0..MaxErr}

\* ------------------------------------------------------------ containers
Some(v) == [ty |-> "Option", tag |-> "Some", val |-> <<v>>, err |-> NoValue, E |-> "-"]
None == [ty |-> "Option", tag |-> "None", val |-> NoValue, err |-> NoValue, E |-> "-"]
Ok(v, E) == [ty |-> "Result", tag |-> "Ok", val |-> <<v>>, err |-> NoValue, E |-> E]
Err(e, E) == [ty |-> "Result", tag |-> "Err", val |-> NoValue, err |-> e, E |-> E]
\* a binding whose container was moved into a call
Moved == [ty |-> "-", tag |-> "Moved", val |-> NoValue, err |-> NoValue, E |-> "-"]
\* the parameter of a call that has not been made
NoCall == [ty |-> "-", tag |-> "NoCall", val |-> NoValue, err |-> NoValue, E |-> "-"]

Options == {Some(v) : v \in Values} \cup {None}
Results == {Ok(v, E) : v \in Values, E \in ErrTypes}
             \cup UNION {{Err(e, E) : e \in ErrValues(E)} : E \in ErrTypes}
Containers == Options \cup Results

VARIABLES
    debug_assertions,   \* cfg!(debug_assertions) (lib.rs:41): fixed at build time
    x,                  \* x[t]: the caller's binding `let x` (lib.rs:72, 81, 89,
                        \* 98), a container or Moved
    self,               \* self[t]: the container moved into t's call (lib.rs:53, 60)
    pc,                 \* pc[t]: "supplied" before the call, then "returned"
                        \* (lib.rs:54, 61), "halted" by the panic (lib.rs:42) or
                        \* "trapped" (lib.rs:47)
    ret                 \* ret[t]: the T the call returned (lib.rs:36), or NoValue

vars == <<debug_assertions, x, self, pc, ret>>

\* ------------------------------------------------------------- outcomes
Returned(v) == [pc |-> "returned", ret |-> <<v>>]
\* unreachable!(): a panic with a diagnostic, nothing is returned
Panicked == [pc |-> "halted", ret |-> NoValue]
\* abnormal termination without a diagnostic (a trap instruction)
Trapped == [pc |-> "trapped", ret |-> NoValue]

\* What a build can do on executing `match transmute::<_, Impossible>(ZeroSized) {}`:
\* the optimizer drops the branch, so the caller reads the payload slot of a
\* container that holds none (any bit pattern of T), or the LLVM `unreachable`
\* survives and is lowered to a trap.
Undefined == {Trapped} \cup {Returned(g) : g \in Values}

\* unsafe fn unreachable() -> !
unreachable_CfgInverted ==
    IF ~debug_assertions THEN {Panicked} ELSE Undefined

unreachable_AlwaysPanics ==
    {Panicked}

unreachable ==
    IF debug_assertions THEN {Panicked} ELSE Undefined

\* impl<T> UnsafeUnwrap<T> for Option<T>
unsafe_unwrap_Option_Default(s) ==
    IF s.tag = "Some" THEN {Returned(s.val[1])} ELSE {Returned(0)}

unsafe_unwrap_Option_WrongPayload(s) ==
    IF s.tag = "Some" THEN {Returned(0)} ELSE unreachable

unsafe_unwrap_Option(s) ==
    IF s.tag = "Some" THEN {Returned(s.val[1])} ELSE unreachable

\* impl<T, E> UnsafeUnwrap<T> for Result<T, E>
unsafe_unwrap_Result_ReleaseUnchecked(s) ==
    IF debug_assertions
    THEN IF s.tag = "Ok" THEN {Returned(s.val[1])} ELSE unreachable
    ELSE unreachable

unsafe_unwrap_Result_InspectsErr(s) ==
    IF s.tag = "Ok" THEN {Returned(s.val[1])}
    ELSE IF s.err # <<>> /\ s.err # <<0>> THEN {Returned(0)} ELSE unreachable

unsafe_unwrap_Result_Default(s) ==
    IF s.tag = "Ok" THEN {Returned(s.val[1])} ELSE {Returned(0)}

unsafe_unwrap_Result(s) ==
    IF s.tag = "Ok" THEN {Returned(s.val[1])} ELSE unreachable

\* Option::unwrap / Result::unwrap of core, the checked operation the crate
\* is documented against (lib.rs:27, lib.rs:35) and benchmarked against
unwrap(s) ==
    IF s.tag \in {"Some", "Ok"} THEN Returned(s.val[1]) ELSE Panicked

\* ---------------------------------------------------------------- state
Init ==
    /\ debug_assertions \in BOOLEAN
    /\ x \in [Threads -> Containers]
    /\ self = [t \in Threads |-> NoCall]
    /\ pc = [t \in Threads |-> "supplied"]
    /\ ret = [t \in Threads |-> NoValue]

\* the by-value call: x[t] is moved into self, the outcome o is produced
Call(t, o) ==
    /\ self' = [self EXCEPT ![t] = x[t]]
    /\ x' = [x EXCEPT ![t] = Moved]
    /\ pc' = [pc EXCEPT ![t] = o.pc]
    /\ ret' = [ret EXCEPT ![t] = o.ret]
    /\ UNCHANGED debug_assertions

\* thread t runs `x.unsafe_unwrap()` on its Option
CallOption_KeepsAlias(t) ==
    /\ pc[t] = "supplied"
    /\ x[t] \in Options
    /\ \E o \in unsafe_unwrap_Option(x[t]) :
          /\ self' = [self EXCEPT ![t] = x[t]]
          /\ pc' = [pc EXCEPT ![t] = o.pc]
          /\ ret' = [ret EXCEPT ![t] = o.ret]
          /\ UNCHANGED <<debug_assertions, x>>

CallOption(t) ==
    /\ pc[t] = "supplied"
    /\ x[t] \in Options
    /\ \E o \in unsafe_unwrap_Option(x[t]) : Call(t, o)

\* thread t runs `x.unsafe_unwrap()` on its Result
CallResult_SharedSlot(t) ==
    /\ pc[t] = "supplied"
    /\ x[t] \in Results
    /\ LET u == CHOOSE u \in Threads : x[u] \in Results
                   /\ \A w \in Threads : x[w] \in Results => u <= w
       IN \E o \in unsafe_unwrap_Result(x[u]) : Call(t, o)

CallResult(t) ==
    /\ pc[t] = "supplied"
    /\ x[t] \in Results
    /\ \E o \in unsafe_unwrap_Result(x[t]) : Call(t, o)

Next == \E t \in Threads : CallOption(t) \/ CallResult(t)

Spec == Init /\ [][Next]_vars

\* ------------------------------------------------------------ properties
Done(t) == pc[t] # "supplied"
IsPresent(c) == c.tag \in {"Some", "Ok"}
Outcome(t) == [pc |-> pc[t], ret |-> ret[t]]

\* C1: in debug configuration a call on Some(v) or Ok(v), whatever the error
\* type, returns exactly v and does not halt.
C1_DebugPresentReturnsPayload ==
    \A t \in Threads :
        (debug_assertions /\ Done(t) /\ IsPresent(self[t]))
            => (pc[t] = "returned" /\ ret[t] = self[t].val)

C1_Witness ==
    /\ debug_assertions
    /\ \E t, u \in Threads :
          /\ self[t] = Some(MaxVal) /\ ret[t] = <<MaxVal>>
          /\ self[u] = Ok(MaxVal, "Int") /\ ret[u] = <<MaxVal>>

\* C2: in debug configuration a call on None or Err(e) halts with a panic and
\* returns no value.
C2_DebugAbsentPanics ==
    \A t \in Threads :
        (debug_assertions /\ Done(t) /\ ~IsPresent(self[t]))
            => (pc[t] = "halted" /\ ret[t] = NoValue)

C2_Witness ==
    /\ debug_assertions
    /\ \E t, u \in Threads :
          /\ self[t] = None /\ pc[t] = "halted"
          /\ self[u] = Err(<<MaxErr>>, "Int") /\ pc[u] = "halted"

\* C3: when the container holds a value the outcome is the payload, returned,
\* whichever the build configuration: the outcome of such a call is a function
\* of the container alone.
C3_PresentOutcomeConfigIndependent ==
    \A t \in Threads :
        (Done(t) /\ IsPresent(self[t])) => Outcome(t) = Returned(self[t].val[1])

C3_Witness ==
    /\ ~debug_assertions
    /\ \E t, u \in Threads :
          /\ self[t] = Ok(MaxVal, "Unit") /\ pc[t] = "returned"
          /\ self[u] = Some(0) /\ pc[u] = "returned"

\* C4: in debug configuration every call ends as the checked unwrap of the
\* same container ends: the same value returned, or a panic.
C4_DebugEqualsCheckedUnwrap ==
    \A t \in Threads :
        (debug_assertions /\ Done(t)) => Outcome(t) = unwrap(self[t])

C4_Witness ==
    /\ debug_assertions
    /\ \E t, u \in Threads :
          /\ Done(t) /\ unwrap(self[t]) = Returned(0) /\ Outcome(t) = Returned(0)
          /\ Done(u) /\ unwrap(self[u]) = Panicked /\ Outcome(u) = Panicked

\* C5 (as stated): any two calls on Err containers end the same way under the
\* same build configuration, and calls on Ok(v) end the same way whatever the
\* error type.
C5_ErrPayloadNeverMatters ==
    \A t, u \in Threads :
        (Done(t) /\ Done(u)) =>
            /\ (self[t].tag = "Err" /\ self[u].tag = "Err") => Outcome(t) = Outcome(u)
            /\ (self[t].tag = "Ok" /\ self[u].tag = "Ok" /\ self[t].val = self[u].val)
                   => Outcome(t) = Outcome(u)

\* C5 (amended): in debug configuration any two calls on Err containers end the
\* same way, whatever the failure values; in either configuration calls on
\* Ok(v) end the same way whatever the error type.
C5_DebugErrPayloadNeverMatters ==
    \A t, u \in Threads :
        (Done(t) /\ Done(u)) =>
            /\ (debug_assertions /\ self[t].tag = "Err" /\ self[u].tag = "Err")
                   => Outcome(t) = Outcome(u)
            /\ (self[t].tag = "Ok" /\ self[u].tag = "Ok" /\ self[t].val = self[u].val)
                   => Outcome(t) = Outcome(u)

C5_Witness ==
    /\ debug_assertions
    /\ \E t, u \in Threads :
          /\ self[t] = Err(<<0>>, "Int") /\ self[u] = Err(<<MaxErr>>, "Int")
          /\ Done(t) /\ Done(u) /\ Outcome(t) = Outcome(u)

\* C6: a call consumes the container passed in (the caller's binding is moved
\* from) and changes nothing else: a binding is never changed in place, and
\* the containers, results and positions of the other callers, and the build
\* configuration, are left as they were.
C6_StepFrame ==
    \A t \in Threads :
        /\ x'[t] \in {x[t], Moved}
        /\ (pc'[t] # pc[t]) => (x[t] \in Containers /\ x'[t] = Moved /\ self'[t] = x[t])
        /\ (pc'[t] = pc[t]) => (x'[t] = x[t] /\ self'[t] = self[t] /\ ret'[t] = ret[t])
        /\ debug_assertions' = debug_assertions

AloneOutcomes(c) ==
    IF IsPresent(c) THEN {Returned(c.val[1])}
    ELSE IF debug_assertions THEN {Panicked}
    ELSE Undefined

C9_Terminal == {"returned", "halted", "trapped"}

C9_StateShape ==
    \A t \in Threads :
        /\ pc[t] \in {"supplied"} \cup C9_Terminal
        /\ pc[t] = "halted" => (debug_assertions /\ ~IsPresent(self[t]))
        /\ pc[t] = "trapped" => (~debug_assertions /\ ~IsPresent(self[t]))

C9_SingleStep ==
    \A t \in Threads :
        /\ (pc'[t] # pc[t]) => (pc[t] = "supplied" /\ pc'[t] \in C9_Terminal)
        /\ (pc[t] \in C9_Terminal) => (pc'[t] = pc[t] /\ ret'[t] = ret[t])

C10_NeverFabricates ==
    \A t \in Threads :
        pc[t] = "returned" => (IsPresent(self[t]) /\ ret[t] = self[t].val)

\* C10 (amended): in debug configuration a returned value x comes from a
\* container Some(x) or Ok(x), and in either configuration a call on Some(v) or
\* Ok(v) that returned has returned v.
C10_DebugNeverFabricates ==
    \A t \in Threads :
        /\ (debug_assertions /\ pc[t] = "returned")
               => (IsPresent(self[t]) /\ ret[t] = self[t].val)
        /\ (pc[t] = "returned" /\ IsPresent(self[t])) => ret[t] = self[t].val

C10_Witness ==
    /\ debug_assertions
    /\ \E t, u \in Threads :
          /\ self[t] = Some(MaxVal) /\ pc[t] = "returned" /\ ret[t] = <<MaxVal>>
          /\ self[u] = Err(<<>>, "Unit") /\ ret[u] = NoValue /\ Done(u)

====
